---------------------------- MODULE Spec2Model ----------------------------
(***************************************************************************)
(* A model of the ProjectionMatrix class of library/p5.projection.js.      *)
(*                                                                         *)
(* Numbers.  The JavaScript code computes in IEEE doubles; the model       *)
(* computes in exact rational arithmetic.  The exact solution for the      *)
(* default point sets of the constructor has numerators beyond 32 bits,    *)
(* so a natural number is a sequence of limbs in base 2^15, least          *)
(* significant first and without leading zeros; 0 is <<>>.  A rational is  *)
(* a triple <<s, n, d>>: the sign s in {-1, 0, 1}, and the numerator n     *)
(* and the denominator d > 0 in lowest terms, so that equal numbers are    *)
(* equal values.  NaN (0/0) and +-Infinity (x/0), which project() can      *)
(* return, have the empty denominator: <<0, <<>>, <<>>>> is NaN, and       *)
(* <<1, <<1>>, <<>>>> and <<-1, <<1>>, <<>>>> are the infinities.          *)
(***************************************************************************)
EXTENDS Integers, Sequences, FiniteSets, TLC

---------------------------------------------------------------------------
(* Natural numbers of any size *)

Base == 2^15

Abs(a) == IF a < 0 THEN -a ELSE a

Sign(a) == IF a < 0 THEN -1 ELSE IF a = 0 THEN 0 ELSE 1

RECURSIVE Gcd(_, _)
Gcd(a, b) == IF b = 0 THEN a ELSE Gcd(b, a % b)

\* the limbs of the natural number n
RECURSIVE Limbs(_)
Limbs(n) == IF n = 0 THEN <<>> ELSE <<n % Base>> \o Limbs(n \div Base)

\* a has at most two limbs: its value is below 2^30
Short(a) == Len(a) <= 2

\* the value of a, for Short(a)
Value(a) == IF Len(a) = 0 THEN 0 ELSE IF Len(a) = 1 THEN a[1] ELSE a[1] + Base * a[2]

\* a without its leading zero limbs
RECURSIVE Trim(_)
Trim(a) ==
    IF Len(a) > 0 /\ a[Len(a)] = 0 THEN Trim(SubSeq(a, 1, Len(a) - 1)) ELSE a

Limb(a, k) == IF k <= Len(a) THEN a[k] ELSE 0

\* the order of a and b on the limbs 1..k, a and b of one length: -1, 0, 1
RECURSIVE CmpFrom(_, _, _)
CmpFrom(a, b, k) ==
    IF k = 0 THEN 0
    ELSE IF a[k] < b[k] THEN -1
    ELSE IF a[k] > b[k] THEN 1
    ELSE CmpFrom(a, b, k - 1)

\* the order of a and b: -1 (a < b), 0, 1 (a > b)
NCmp(a, b) ==
    IF Len(a) < Len(b) THEN -1
    ELSE IF Len(a) > Len(b) THEN 1
    ELSE CmpFrom(a, b, Len(a))

\* the limbs k.. of a + b, c the carry into limb k
RECURSIVE AddFrom(_, _, _, _)
AddFrom(a, b, k, c) ==
    IF k > Len(a) /\ k > Len(b) THEN Limbs(c)
    ELSE <<(Limb(a, k) + Limb(b, k) + c) % Base>>
         \o AddFrom(a, b, k + 1, (Limb(a, k) + Limb(b, k) + c) \div Base)

NAdd(a, b) == AddFrom(a, b, 1, 0)

\* the limbs k.. of a - b, c the borrow from limb k; a >= b
RECURSIVE SubFrom(_, _, _, _)
SubFrom(a, b, k, c) ==
    IF k > Len(a) THEN <<>>
    ELSE <<(a[k] - Limb(b, k) - c + Base) % Base>>
         \o SubFrom(a, b, k + 1, IF a[k] - Limb(b, k) - c < 0 THEN 1 ELSE 0)

\* a - b, for a >= b
NSub(a, b) == Trim(SubFrom(a, b, 1, 0))

\* the limbs k.. of a * m for one limb m, c the carry into limb k
RECURSIVE ScaleFrom(_, _, _, _)
ScaleFrom(a, m, k, c) ==
    IF k > Len(a) THEN Limbs(c)
    ELSE <<(a[k] * m + c) % Base>> \o ScaleFrom(a, m, k + 1, (a[k] * m + c) \div Base)

\* a times the limbs k.. of b
RECURSIVE MulFrom(_, _, _)
MulFrom(a, b, k) ==
    IF k > Len(b) THEN <<>>
    ELSE AddFrom(ScaleFrom(a, b[k], 1, 0), <<0>> \o MulFrom(a, b, k + 1), 1, 0)

NMul(a, b) ==
    IF Len(a) <= 1 /\ Len(b) <= 1 THEN Limbs(Value(a) * Value(b))
    ELSE Trim(MulFrom(a, b, 1))

\* the largest digit e in d..d + 2 * step - 1 with e * b <= x, for d * b <= x
RECURSIVE Digit(_, _, _, _)
Digit(x, b, d, step) ==
    IF step = 0 THEN d
    ELSE IF NCmp(ScaleFrom(b, d + step, 1, 0), x) <= 0 THEN Digit(x, b, d + step, step \div 2)
    ELSE Digit(x, b, d, step \div 2)

\* quotient and remainder of a by b from those (qr) of a by b * Base and
\* the next digit e of the quotient
NextDigit(qr, b, e) == <<Trim(<<e>> \o qr[1]), NSub(qr[2], ScaleFrom(b, e, 1, 0))>>

\* quotient and remainder of a by b from those (qr) of a by b * Base
Unshifted(qr, b) == NextDigit(qr, b, Digit(qr[2], b, 0, Base \div 2))

\* <<a div b, a mod b>>, for b > 0: long division in base Base
RECURSIVE NDivMod(_, _)
NDivMod(a, b) ==
    IF Short(a) /\ Short(b)
    THEN <<Limbs(Value(a) \div Value(b)), Limbs(Value(a) % Value(b))>>
    ELSE IF NCmp(a, b) < 0 THEN <<<<>>, a>>
    ELSE Unshifted(NDivMod(a, <<0>> \o b), b)

\* a div b, for b > 0
NDiv(a, b) == IF b = <<1>> THEN a ELSE NDivMod(a, b)[1]

RECURSIVE NGcd(_, _)
NGcd(a, b) ==
    IF Short(a) /\ Short(b) THEN Limbs(Gcd(Value(a), Value(b)))
    ELSE IF b = <<>> THEN a
    ELSE NGcd(b, NDivMod(a, b)[2])

---------------------------------------------------------------------------
(* Exact arithmetic *)

\* the integer n
R(n) == <<Sign(n), Limbs(Abs(n)), <<1>>>>

Zero == R(0)

One == R(1)

NaN == <<0, <<>>, <<>>>>

IsFinite(a) == a[3] # <<>>

\* s * n / d, g the greatest common divisor of n and d
Reduced(s, n, d, g) == <<s, NDiv(n, g), NDiv(d, g)>>

\* the rational s * n / d in lowest terms, for d > 0
Rat(s, n, d) == IF n = <<>> THEN Zero ELSE Reduced(s, n, d, NGcd(n, d))

\* (sa * x + sb * y) / d, c the order of x and y
Ordered(sa, x, sb, y, d, c) ==
    IF sa = sb THEN Rat(sa, NAdd(x, y), d)
    ELSE Rat(IF c > 0 THEN sa ELSE sb, NSub(IF c > 0 THEN x ELSE y, IF c > 0 THEN y ELSE x), d)

\* (sa * x + sb * y) / d
SignedSum(sa, x, sb, y, d) == Ordered(sa, x, sb, y, d, NCmp(x, y))

\* a + b, a - b, a * b on finite numbers
RAdd(a, b) ==
    IF a[1] = 0 THEN b
    ELSE IF b[1] = 0 THEN a
    ELSE SignedSum(a[1], NMul(a[2], b[3]), b[1], NMul(b[2], a[3]), NMul(a[3], b[3]))

RNeg(a) == <<-a[1], a[2], a[3]>>

RSub(a, b) == RAdd(a, RNeg(b))

RMul(a, b) ==
    IF a[1] = 0 \/ b[1] = 0 THEN Zero
    ELSE Rat(a[1] * b[1], NMul(a[2], b[2]), NMul(a[3], b[3]))

\* a / b on finite numbers; x / 0 is NaN or a signed infinity, as in JavaScript
RDiv(a, b) ==
    IF b[1] = 0 THEN <<a[1], Limbs(Abs(a[1])), <<>>>>
    ELSE RMul(a, <<b[1], b[3], b[2]>>)

RAbs(a) == <<Abs(a[1]), a[2], a[3]>>

\* a > b, for finite a >= 0 and b >= 0
RLarger(a, b) == NCmp(NMul(a[2], b[3]), NMul(b[2], a[3])) > 0

---------------------------------------------------------------------------
(***************************************************************************)
(* math.lusolve(U, b) of math.js, the one library call of the class, on a  *)
(* dense n x n array: lup (LU decomposition, partial pivoting), then       *)
(* forward substitution on L and backward substitution on U.  The backward *)
(* substitution throws "Linear system cannot be solved since matrix is     *)
(* singular" when it has to divide a non-zero value by a zero pivot; a     *)
(* row whose right-hand side is zero gets the solution 0 without looking   *)
(* at the pivot.                                                           *)
(***************************************************************************)

Min(a, b) == IF a < b THEN a ELSE b

\* sum over k in 1..m of d[i][k] * d[k][j]
RECURSIVE Dot(_, _, _, _)
Dot(d, i, j, m) ==
    IF m = 0 THEN Zero
    ELSE RAdd(Dot(d, i, j, m - 1), RMul(d[i][m], d[m][j]))

\* lup, first inner loop, from row i on:
\* "data[i][j] -= sum_{k < min(i,j)} data[i][k] * data[k][j]", in place
RECURSIVE ReduceColumn(_, _, _)
ReduceColumn(d, j, i) ==
    IF i > Len(d) THEN d
    ELSE ReduceColumn([d EXCEPT ![i][j] = RSub(d[i][j], Dot(d, i, j, Min(i - 1, j - 1)))],
                      j, i + 1)

\* lup, second inner loop, from row i on: the row with the largest absolute
\* value in column j; pi is that row among the rows j..i-1 (a later row
\* replaces an earlier one only when strictly larger)
RECURSIVE PivotRow(_, _, _, _)
PivotRow(d, j, i, pi) ==
    IF i > Len(d) THEN pi
    ELSE PivotRow(d, j, i + 1,
                  IF RLarger(RAbs(d[i][j]), RAbs(d[pi][j])) THEN i ELSE pi)

Swap(s, a, b) == [s EXCEPT ![a] = s[b], ![b] = s[a]]

\* lup, third inner loop, from row i on: column j divided by the pivot vjj
RECURSIVE ScaleColumn(_, _, _, _)
ScaleColumn(d, j, vjj, i) ==
    IF i > Len(d) THEN d
    ELSE ScaleColumn(IF d[i][j] # Zero THEN [d EXCEPT ![i][j] = RDiv(d[i][j], vjj)] ELSE d,
                     j, vjj, i + 1)

\* lup, the end of an iteration of the loop over the columns: rows j and pi
\* swapped in d and p, and column j divided by the pivot d[pi][j]
PivotStep(d, p, j, pi) ==
    [d |-> ScaleColumn(Swap(d, j, pi), j, d[pi][j], j + 1), p |-> Swap(p, j, pi)]

\* lup, an iteration of the loop over the columns once column j is reduced
ReducedStep(d, p, j) == PivotStep(d, p, j, PivotRow(d, j, j, j))

\* one iteration of lup's loop over the columns, on the state [d, p]
LupStep(st, j) ==
    ReducedStep(IF j > 1 THEN ReduceColumn(st.d, j, 1) ELSE st.d, st.p, j)

\* lup's loop over the columns, from column j on
RECURSIVE LupLoop(_, _)
LupLoop(st, j) == IF j > Len(st.d) THEN st ELSE LupLoop(LupStep(st, j), j + 1)

\* lup(A): L below the diagonal of d (unit diagonal), U on and above it;
\* p[k] is the row of A that ended at row k
lup(A) == LupLoop([d |-> A, p |-> <<1, 2, 3, 4, 5, 6, 7, 8>>], 1)

\* b[i] -= xj * d[i][j] for the rows i..hi
RECURSIVE Eliminate(_, _, _, _, _, _)
Eliminate(d, b, j, xj, i, hi) ==
    IF i > hi THEN b
    ELSE Eliminate(d, [b EXCEPT ![i] = RSub(b[i], RMul(xj, d[i][j]))], j, xj, i + 1, hi)

\* forward substitution L y = b (unit diagonal), from column j on; x holds
\* the solution of the columns before j
RECURSIVE LsolveLoop(_, _, _, _)
LsolveLoop(d, b, x, j) ==
    IF j > Len(b) THEN x
    ELSE IF b[j] # Zero
         THEN LsolveLoop(d, Eliminate(d, b, j, b[j], j + 1, Len(b)), Append(x, b[j]), j + 1)
         ELSE LsolveLoop(d, b, Append(x, Zero), j + 1)

lsolve(d, b) == LsolveLoop(d, b, <<>>, 1)

\* backward substitution U x = b, from column j down, on the state
\* [ok, b, x]; ok = FALSE once the error is thrown
RECURSIVE UsolveLoop(_, _, _)
UsolveLoop(d, st, j) ==
    IF j = 0 \/ ~st.ok THEN st
    ELSE IF st.b[j] = Zero THEN UsolveLoop(d, [st EXCEPT !.x[j] = Zero], j - 1)
    ELSE IF d[j][j] = Zero THEN [st EXCEPT !.ok = FALSE]
    ELSE LET xj == RDiv(st.b[j], d[j][j])
         IN  UsolveLoop(d, [ok |-> TRUE,
                            b  |-> Eliminate(d, st.b, j, xj, 1, j - 1),
                            x  |-> [st.x EXCEPT ![j] = xj]], j - 1)

\* what the backward substitution returns: [ok |-> TRUE, x |-> the solution],
\* or ok = FALSE when it throws
Returned(st) == IF st.ok THEN [ok |-> TRUE, x |-> st.x] ELSE [ok |-> FALSE, x |-> <<>>]

usolve(d, b) == Returned(UsolveLoop(d, [ok |-> TRUE, b |-> b, x |-> b], Len(b)))

\* the rows of b in the order p
Permute(b, p) ==
    <<b[p[1]], b[p[2]], b[p[3]], b[p[4]], b[p[5]], b[p[6]], b[p[7]], b[p[8]]>>

\* lusolve after the decomposition f: the two substitutions on the permuted b
SolveLU(f, b) == usolve(f.d, lsolve(f.d, Permute(b, f.p)))

\* math.lusolve(A, b): [ok |-> TRUE, x |-> the solution], or ok = FALSE when
\* the call throws
lusolve(A, b) == SolveLU(lup(A), b)

---------------------------------------------------------------------------
(* The solver of the class.  A point is <<x, y>>, a point set four points. *)

\* row k of the matrix U of projectionMatrix
RowU(inP, outP, k) ==
    LET i == IF k <= 4 THEN k ELSE k - 4
        x == inP[i][1]
        y == inP[i][2]
        w == IF k <= 4 THEN outP[i][1] ELSE outP[i][2]
    IN  IF k <= 4
        THEN <<R(x), R(y), One, Zero, Zero, Zero, R(-x * w), R(-y * w)>>
        ELSE <<Zero, Zero, Zero, R(x), R(y), One, R(-x * w), R(-y * w)>>

BuildU(inP, outP) ==
    <<RowU(inP, outP, 1), RowU(inP, outP, 2), RowU(inP, outP, 3),
      RowU(inP, outP, 4), RowU(inP, outP, 5), RowU(inP, outP, 6),
      RowU(inP, outP, 7), RowU(inP, outP, 8)>>

\* BuildB with the u coordinates in the rows of the v coordinates as well
BuildBRepeated(outP) ==
    <<R(outP[1][1]), R(outP[2][1]), R(outP[3][1]), R(outP[4][1]),
      R(outP[1][1]), R(outP[2][1]), R(outP[3][1]), R(outP[4][1])>>

\* the right-hand side b of projectionMatrix
BuildB(outP) ==
    <<R(outP[1][1]), R(outP[2][1]), R(outP[3][1]), R(outP[4][1]),
      R(outP[1][2]), R(outP[2][2]), R(outP[3][2]), R(outP[4][2])>>

\* the solution s of lusolve with c22 = 1 pushed
Coefficients(s) ==
    IF s.ok THEN [ok |-> TRUE, m |-> Append(s.x, One)] ELSE [ok |-> FALSE, m |-> <<>>]

\* projectionMatrix(inPts, outPts), here (inP, outP): [ok |-> TRUE, m |-> the nine coefficients
\* c00, c01, c02, c10, c11, c12, c20, c21, c22], or ok = FALSE when lusolve throws
projectionMatrix(inP, outP) ==
    Coefficients(lusolve(BuildU(inP, outP), BuildB(outP)))

\* the homogeneous-division formula of project(), on the matrix m and the
\* point (x, y)
MapPoint(m, x, y) ==
    LET u == RAdd(RAdd(RMul(m[1], x), RMul(m[2], y)), m[3])
        v == RAdd(RAdd(RMul(m[4], x), RMul(m[5], y)), m[6])
        z == RAdd(RAdd(RMul(m[7], x), RMul(m[8], y)), m[9])
    IN  <<RDiv(u, z), RDiv(v, z)>>

\* MatrixArgs with the forward matrix laid out row by row
MatrixArgsRowMajor(m) ==
    <<m[1], m[2], Zero, m[3],
      m[4], m[5], Zero, m[6],
      Zero, Zero, One,  Zero,
      m[7], m[8], Zero, m[9]>>

\* the sixteen arguments apply() passes to applyMatrix
MatrixArgs(m) ==
    <<m[1], m[4], Zero, m[7],
      m[2], m[5], Zero, m[8],
      Zero, Zero, One,  Zero,
      m[3], m[6], Zero, m[9]>>

---------------------------------------------------------------------------
(***************************************************************************)
(* The environment: p5's canvas and mouse, and the point sets of the       *)
(* sketch.  Points lie on a grid of 30, the radius of the hit test, so     *)
(* that corners at distance exactly 30 of the mouse occur.  The default    *)
(* point sets of the constructor are as in the code; the mouse of the      *)
(* model stays on the small canvas and does not reach a default corner.    *)
(***************************************************************************)

HalfWidth == 60

HalfHeight == 30

\* p5's width and height of the canvas
width == 2 * HalfWidth

height == 2 * HalfHeight

\* the mouse positions of the model, relative to the centre of the canvas
RelPositions == {<<0, 0>>, <<30, 30>>, <<60, 30>>}

\* the default inPts of the constructor: a full HD canvas
DefaultInPts == <<<<0, 0>>, <<0, 1080>>, <<1920, 0>>, <<1920, 1080>>>>

\* the default outPts of the constructor
DefaultOutPts == <<<<-700, -400>>, <<-650, 300>>, <<600, -150>>, <<500, 450>>>>

\* the canvas corners the sketch passes as inPts
Canvas == <<<<0, 0>>, <<0, 30>>, <<30, 0>>, <<30, 30>>>>

\* the screen corners the sketch passes as outPts
Screen == <<<<0, 0>>, <<0, 30>>, <<30, 0>>, <<60, 30>>>>

\* the points the sketch gives to project()
ProjectPoints == {<<0, 0>>, <<30, 30>>}

\* the point sets with up to two corners of a set of S on a mouse position
Dragged(S) == S \cup {[q EXCEPT ![k] = p] : q \in S, k \in 1..4, p \in RelPositions}

SolveQuads == Dragged(Dragged({Canvas, Screen})) \cup {DefaultOutPts}

\* the solves of a point set q of an instance: forward and inverse with
\* the canvas corners or the default canvas as inPts, and with q itself
SolveInput(q, k) ==
    <<IF k = 1 THEN Canvas ELSE IF k = 2 THEN DefaultInPts ELSE q,
      IF k = 3 THEN Canvas ELSE IF k = 4 THEN DefaultInPts ELSE q>>

SolveInputs == {SolveInput(q, k) : q \in SolveQuads, k \in 1..5}

\* projectionMatrix on the point sets a drag of the sketch's point sets
\* produces and on the default point sets, solved once
Solutions == [io \in SolveInputs |-> projectionMatrix(io[1], io[2])]

\* this.projectionMatrix(inV, outV) as update() calls it
Solved(inV, outV) ==
    IF <<inV, outV>> \in SolveInputs THEN Solutions[<<inV, outV>>]
    ELSE projectionMatrix(inV, outV)

\* the two solves of update() on the point sets io = <<inV, outV>>: the
\* forward one, from io[1] to io[2], and the inverse one
Solves(io) == [k \in {1, 2} |-> Solved(io[k], io[3 - k])]

\* update() on the matrices (m, im), s the outcomes of its two solves: the
\* two assignments in order; the second solve is not reached when the first
\* throws, and a throw leaves the assignment it interrupts undone
Assign(m, im, s) ==
    IF ~s[1].ok THEN [mat |-> m, invmat |-> im, thrown |-> TRUE]
    ELSE IF ~s[2].ok THEN [mat |-> s[1].m, invmat |-> im, thrown |-> TRUE]
    ELSE [mat |-> s[1].m, invmat |-> s[2].m, thrown |-> FALSE]

update(m, im, inV, outV) == Assign(m, im, Solves(<<inV, outV>>))

---------------------------------------------------------------------------
(***************************************************************************)
(* The state.  JavaScript arrays are objects: the class keeps the arrays   *)
(* it is given and writes into outPts in place, so a point set lives at an *)
(* address of the heap and inPts, outPts hold addresses.  An array nothing *)
(* refers to any more is collected.                                        *)
(***************************************************************************)

Insts == {1, 2}

Null == "null"

Names == {"a", "b"}

Undefined == <<>>

\* an address holding no array
Free == <<>>

\* an instance has at most two arrays
Addrs == 1..(2 * Cardinality(Insts))

\* no address
None == 0

\* the radius of the hit test of mouseMoved
r == 30

VARIABLES
    heap,            \* address -> four points, or Free
    held,            \* the addresses of the arrays the sketch keeps: <<src, dst>> or <<>>
    made,            \* instance -> the constructor has returned
    inPts, outPts,   \* instance -> an address
    name,            \* instance -> a name or Null
    hit, dragging, edit,
    mat, invmat,     \* instance -> nine coefficients, or Undefined
    storage,         \* p5 local storage: name -> stored point set, or Undefined
    mouseX, mouseY, mouseIsPressed,   \* p5's globals
    failed,          \* instance -> a solve of the instance has thrown
    op               \* the last call: [kind, inst, arg, thrown, out]

vars == <<heap, held, made, inPts, outPts, name, hit, dragging, edit, mat, invmat,
          storage, mouseX, mouseY, mouseIsPressed, failed, op>>

InVals(i) == heap[inPts[i]]

OutVals(i) == heap[outPts[i]]

\* the lowest free address of h
Alloc(h) == CHOOSE a \in Addrs : h[a] = Free /\ \A b \in Addrs : b < a => h[b] # Free

\* h without the arrays that neither the sketch nor an instance refers to
Collect(h, inP, outP, hd) ==
    LET live == {hd[k] : k \in DOMAIN hd} \cup {inP[i] : i \in Insts} \cup {outP[i] : i \in Insts}
    IN  [a \in Addrs |-> IF a \in live THEN h[a] ELSE Free]

Call(kind, i, arg, thrown, out) ==
    [kind |-> kind, inst |-> i, arg |-> arg, thrown |-> thrown, out |-> out]

Init ==
    /\ heap = [a \in Addrs |-> Free]
    /\ held = <<>>
    /\ made = [i \in Insts |-> FALSE]
    /\ inPts = [i \in Insts |-> None]
    /\ outPts = [i \in Insts |-> None]
    /\ name = [i \in Insts |-> Null]
    /\ hit = [i \in Insts |-> -1]
    /\ dragging = [i \in Insts |-> FALSE]
    /\ edit = [i \in Insts |-> FALSE]
    /\ mat = [i \in Insts |-> Undefined]
    /\ invmat = [i \in Insts |-> Undefined]
    /\ storage = [n \in Names |-> Undefined]
    /\ mouseX = 0
    /\ mouseY = 0
    /\ mouseIsPressed = FALSE
    /\ failed = [i \in Insts |-> FALSE]
    /\ op = Call("none", 0, <<>>, FALSE, <<>>)

\* the browser delivers a mouse event: p5 sets its globals
MouseEvent(p, pressed) ==
    /\ mouseX' = HalfWidth + p[1]
    /\ mouseY' = HalfHeight + p[2]
    /\ mouseIsPressed' = pressed
    /\ UNCHANGED <<heap, held, made, inPts, outPts, name, hit, dragging, edit, mat,
                   invmat, storage, failed, op>>

---------------------------------------------------------------------------
(***************************************************************************)
(* The operations of the class, on instance i.  An array argument of the   *)
(* constructor is <<"new", pts>>, an array the sketch creates for the      *)
(* call, <<"ref", a>>, an array that exists at address a, or, for inPts,   *)
(* <<"out">>, the very array passed as outPts; Undefined is the omitted    *)
(* argument (or any falsy one), for which the constructor creates the      *)
(* default array.                                                          *)
(***************************************************************************)

\* the end of the constructor, u what its update() leaves: the fields of
\* the new object on the heap h.  A constructor that throws yields no
\* object, and the arrays created for it are lost.
Constructed(i, h, ia, oa, nm, u) ==
    IF u.thrown
    THEN /\ op' = Call("new", i, <<>>, TRUE, <<>>)
         /\ UNCHANGED <<heap, made, inPts, outPts, name, hit, dragging, edit, mat, invmat>>
    ELSE /\ heap' = h
         /\ made' = [made EXCEPT ![i] = TRUE]
         /\ inPts' = [inPts EXCEPT ![i] = ia]
         /\ outPts' = [outPts EXCEPT ![i] = oa]
         /\ name' = [name EXCEPT ![i] = nm]
         /\ hit' = [hit EXCEPT ![i] = -1]
         /\ dragging' = [dragging EXCEPT ![i] = FALSE]
         /\ edit' = [edit EXCEPT ![i] = FALSE]
         /\ mat' = [mat EXCEPT ![i] = u.mat]
         /\ invmat' = [invmat EXCEPT ![i] = u.invmat]
         /\ op' = Call("new", i, <<>>, FALSE, <<>>)

\* new ProjectionMatrix(outArg, inArg, nm)
Construct(i, outArg, inArg, nm) ==
    /\ ~made[i]
    /\ LET oa == IF outArg = Undefined THEN Alloc(heap)
                 ELSE IF outArg[1] = "ref" THEN outArg[2]
                 ELSE Alloc(heap)
           h1 == IF outArg = Undefined THEN [heap EXCEPT ![oa] = DefaultOutPts]
                 ELSE IF outArg[1] = "new" THEN [heap EXCEPT ![oa] = outArg[2]]
                 ELSE heap
           ia == IF inArg = Undefined THEN Alloc(h1)
                 ELSE IF inArg[1] = "ref" THEN inArg[2]
                 ELSE IF inArg[1] = "out" THEN oa
                 ELSE Alloc(h1)
           h2 == IF inArg = Undefined THEN [h1 EXCEPT ![ia] = DefaultInPts]
                 ELSE IF inArg[1] = "new" THEN [h1 EXCEPT ![ia] = inArg[2]]
                 ELSE h1
       IN  Constructed(i, h2, ia, oa, nm, update(Undefined, Undefined, h2[ia], h2[oa]))
    /\ UNCHANGED <<held, storage, mouseX, mouseY, mouseIsPressed, failed>>

\* Save with one storage key for every instance
SaveUnnamed(i) ==
    /\ made[i]
    /\ storage' = [storage EXCEPT !["a"] = OutVals(i)]
    /\ op' = Call("save", i, <<>>, FALSE, <<>>)
    /\ UNCHANGED <<heap, held, made, inPts, outPts, name, hit, dragging, edit, mat,
                   invmat, mouseX, mouseY, mouseIsPressed, failed>>

\* save(): storeItem keeps a copy (JSON) of the points
Save(i) ==
    /\ made[i]
    /\ storage' = IF name[i] = Null THEN storage
                  ELSE [storage EXCEPT ![name[i]] = OutVals(i)]
    /\ op' = Call("save", i, <<>>, FALSE, <<>>)
    /\ UNCHANGED <<heap, held, made, inPts, outPts, name, hit, dragging, edit, mat,
                   invmat, mouseX, mouseY, mouseIsPressed, failed>>

\* the end of load() and of update(), called by the sketch, u what update()
\* leaves
Updated(i, kind, u) ==
    /\ mat' = [mat EXCEPT ![i] = u.mat]
    /\ invmat' = [invmat EXCEPT ![i] = u.invmat]
    /\ failed' = [failed EXCEPT ![i] = @ \/ u.thrown]
    /\ op' = Call(kind, i, <<>>, u.thrown, <<>>)

\* load(): getItem returns a new array (parsed JSON), which replaces outPts
Load(i) ==
    /\ made[i]
    /\ IF name[i] = Null \/ storage[IF name[i] = Null THEN "a" ELSE name[i]] = Undefined
       THEN /\ op' = Call("load", i, <<>>, FALSE, <<>>)
            /\ UNCHANGED <<heap, outPts, mat, invmat, failed>>
       ELSE LET stored == storage[name[i]]
                h0     == Collect(heap, inPts, [outPts EXCEPT ![i] = None], held)
                a      == Alloc(h0)
            IN  /\ heap' = [h0 EXCEPT ![a] = stored]
                /\ outPts' = [outPts EXCEPT ![i] = a]
                /\ Updated(i, "load", update(mat[i], invmat[i], h0[inPts[i]], stored))
    /\ UNCHANGED <<held, made, inPts, name, hit, dragging, edit, storage,
                   mouseX, mouseY, mouseIsPressed>>

\* update(), called by the sketch
Update(i) ==
    /\ made[i]
    /\ Updated(i, "update", update(mat[i], invmat[i], InVals(i), OutVals(i)))
    /\ UNCHANGED <<heap, held, made, inPts, outPts, name, hit, dragging, edit, storage,
                   mouseX, mouseY, mouseIsPressed>>

\* HitTest with a corner at distance exactly r hit as well
RECURSIVE HitTestClosed(_, _, _, _, _)
HitTestClosed(pts, mx, my, n, found) ==
    IF n >= 4 THEN found
    ELSE LET dx == pts[n + 1][1] - mx
             dy == pts[n + 1][2] - my
             d2 == dx * dx + dy * dy
         IN  HitTestClosed(pts, mx, my, n + 1, IF d2 <= r * r THEN n ELSE found)

\* the hit test of mouseMoved, corners n..3 still to look at: the last
\* corner of pts strictly within r of (mx, my), or found
RECURSIVE HitTest(_, _, _, _, _)
HitTest(pts, mx, my, n, found) ==
    IF n >= 4 THEN found
    ELSE LET dx == pts[n + 1][1] - mx
             dy == pts[n + 1][2] - my
             d2 == dx * dx + dy * dy
         IN  HitTest(pts, mx, my, n + 1, IF d2 < r * r THEN n ELSE found)

\* what a call of mouseMoved() on instance i leaves: the heap h, hit n,
\* dragging d, and the matrices of its update(), u
Outcome(h, n, d, u) ==
    [heap |-> h, hit |-> n, dragging |-> d,
     mat |-> u.mat, invmat |-> u.invmat, thrown |-> u.thrown]

\* mouseMoved() without a drag step: update() is not called
NoUpdate(i) == [mat |-> mat[i], invmat |-> invmat[i], thrown |-> FALSE]

\* mouseMoved() outside a drag, n the corner the hit test found or -1: a
\* drag starts when the mouse is pressed on a corner
Hover(i, n) == Outcome(heap, n, mouseIsPressed /\ n >= 0, NoUpdate(i))

\* mouseMoved whose drag step moves the corner and leaves the matrices
mouseMovedNoUpdate(i) ==
    LET mx == mouseX - width \div 2
        my == mouseY - height \div 2
    IN  IF dragging[i]
        THEN IF ~mouseIsPressed
             THEN Outcome(heap, hit[i], FALSE, NoUpdate(i))
             ELSE Outcome([heap EXCEPT ![outPts[i]][hit[i] + 1] = <<mx, my>>], hit[i], TRUE,
                          NoUpdate(i))
        ELSE Hover(i, HitTest(OutVals(i), mx, my, 0, -1))

\* the drag step of mouseMoved() once the corner is moved, on the heap h
DragStep(i, h) ==
    Outcome(h, hit[i], TRUE, update(mat[i], invmat[i], h[inPts[i]], h[outPts[i]]))

\* mouseMoved whose end of a drag forgets the corner as well
mouseMovedReleaseClearsHit(i) ==
    LET mx == mouseX - width \div 2
        my == mouseY - height \div 2
    IN  IF dragging[i]
        THEN IF ~mouseIsPressed
             THEN Outcome(heap, -1, FALSE, NoUpdate(i))
             ELSE DragStep(i, [heap EXCEPT ![outPts[i]][hit[i] + 1] = <<mx, my>>])
        ELSE Hover(i, HitTest(OutVals(i), mx, my, 0, -1))

\* mouseMoved() on instance i: the new heap, hit, dragging and matrices, and
\* whether the call throws
mouseMoved(i) ==
    LET mx == mouseX - width \div 2
        my == mouseY - height \div 2
    IN  IF dragging[i]
        THEN IF ~mouseIsPressed
             THEN Outcome(heap, hit[i], FALSE, NoUpdate(i))
             ELSE DragStep(i, [heap EXCEPT ![outPts[i]][hit[i] + 1] = <<mx, my>>])
        ELSE Hover(i, HitTest(OutVals(i), mx, my, 0, -1))

\* the assignments of a call of mouseMoved() with the result m, within the
\* operation kind that passes out to the canvas
Moved(i, m, kind, out) ==
    /\ heap' = m.heap
    /\ hit' = [hit EXCEPT ![i] = m.hit]
    /\ dragging' = [dragging EXCEPT ![i] = m.dragging]
    /\ mat' = [mat EXCEPT ![i] = m.mat]
    /\ invmat' = [invmat EXCEPT ![i] = m.invmat]
    /\ failed' = [failed EXCEPT ![i] = @ \/ m.thrown]
    /\ op' = Call(kind, i, <<>>, m.thrown, out)

\* mouseMoved(), called by the sketch
MouseMoved(i) ==
    /\ made[i]
    /\ Moved(i, mouseMoved(i), "mouseMoved", <<>>)
    /\ UNCHANGED <<held, made, inPts, outPts, name, edit, storage,
                   mouseX, mouseY, mouseIsPressed>>

\* apply(debug): applyMatrix with the forward matrix, then mouseMoved() in
\* edit mode; the drawing calls (drawBorder, drawMouse) only paint
Apply(i) ==
    /\ made[i]
    /\ IF edit[i]
       THEN Moved(i, mouseMoved(i), "apply", MatrixArgs(mat[i]))
       ELSE /\ op' = Call("apply", i, <<>>, FALSE, MatrixArgs(mat[i]))
            /\ UNCHANGED <<heap, hit, dragging, mat, invmat, failed>>
    /\ UNCHANGED <<held, made, inPts, outPts, name, edit, storage,
                   mouseX, mouseY, mouseIsPressed>>

\* project(x, y)
Project(i, x, y) ==
    /\ made[i]
    /\ op' = Call("project", i, <<x, y>>, FALSE, MapPoint(invmat[i], x, y))
    /\ UNCHANGED <<heap, held, made, inPts, outPts, name, hit, dragging, edit, mat,
                   invmat, storage, mouseX, mouseY, mouseIsPressed, failed>>

\* projectionMatrix(p, q), called by the sketch; the method does not use this
ProjectionMatrixCall(p, q) ==
    /\ LET s == projectionMatrix(p, q)
       IN  op' = Call("projectionMatrix", 0, <<p, q>>, ~s.ok, s.m)
    /\ UNCHANGED <<heap, held, made, inPts, outPts, name, hit, dragging, edit, mat,
                   invmat, storage, mouseX, mouseY, mouseIsPressed, failed>>

\* the sketch switches the edit mode: edit is a field it assigns
SetEdit(i, b) ==
    /\ made[i]
    /\ edit' = [edit EXCEPT ![i] = b]
    /\ UNCHANGED <<heap, held, made, inPts, outPts, name, hit, dragging, mat, invmat,
                   storage, mouseX, mouseY, mouseIsPressed, failed, op>>

---------------------------------------------------------------------------
(* One instance, every operation of the class. *)

\* the constructor calls of the sketch: screen and canvas corners under a
\* name, the default canvas, one array given as both outPts and inPts, no
\* argument at all, and the canvas corners alone
ConstructorCalls ==
    {<<<<"new", Screen>>, <<"new", Canvas>>, "a">>,
     <<<<"new", Screen>>, Undefined, Null>>,
     <<<<"new", Canvas>>, <<"out">>, Null>>,
     <<Undefined, Undefined, Null>>,
     <<Undefined, <<"new", Canvas>>, Null>>}

Calls(i) ==
    \/ \E c \in ConstructorCalls : Construct(i, c[1], c[2], c[3])
    \/ Save(i)
    \/ Load(i)
    \/ Update(i)
    \/ MouseMoved(i)
    \/ Apply(i)
    \/ \E p \in ProjectPoints : Project(i, R(p[1]), R(p[2]))
    \/ \E b \in BOOLEAN : SetEdit(i, b)

Next ==
    \/ \E p \in RelPositions, pressed \in BOOLEAN : MouseEvent(p, pressed)
    \/ Calls(1)

Spec == Init /\ [][Next]_vars

---------------------------------------------------------------------------
(* Two instances: the second shares the outPts array of the first, or its *)
(* name, or nothing.                                                       *)

TwoPositions == {<<30, 30>>, <<60, 30>>}

NextTwo ==
    \/ \E p \in TwoPositions, pressed \in BOOLEAN : MouseEvent(p, pressed)
    \/ Construct(1, <<"new", Screen>>, <<"new", Canvas>>, "a")
    \/ made[1] /\ Construct(2, <<"ref", outPts[1]>>, <<"new", Canvas>>, "b")
    \/ made[1] /\ \E nm \in Names : Construct(2, <<"new", Screen>>, <<"new", Canvas>>, nm)
    \/ \E i \in Insts : MouseMoved(i)
    \/ \E i \in Insts : Save(i)
    \/ \E i \in Insts : Load(i)
    \/ \E i \in Insts : Update(i)

SpecTwo == Init /\ [][NextTwo]_vars

---------------------------------------------------------------------------
(* The solver on its own: the sketch holds two point sets, src and dst,   *)
(* solves src -> dst and dst -> dst, builds an instance from them and     *)
(* projects the forward images of its points back.                        *)

SolvePoints == {<<0, 0>>, <<0, 30>>, <<30, 0>>, <<30, 30>>, <<60, 30>>}

\* three source points on a line off the origin
CollinearSource == <<<<30, 30>>, <<60, 30>>, <<0, 30>>, <<30, 0>>>>

SolveSources == {Canvas, CollinearSource}

TestPoints == {<<0, 0>>, <<30, 30>>, <<60, 30>>, <<0, 30>>, <<15, 15>>}

InitSolve ==
    /\ \E p \in SolveSources, q \in SolvePoints \X SolvePoints \X SolvePoints \X SolvePoints :
          heap = [a \in Addrs |-> IF a = 1 THEN p ELSE IF a = 2 THEN q ELSE Free]
    /\ held = <<1, 2>>
    /\ made = [i \in Insts |-> FALSE]
    /\ inPts = [i \in Insts |-> None]
    /\ outPts = [i \in Insts |-> None]
    /\ name = [i \in Insts |-> Null]
    /\ hit = [i \in Insts |-> -1]
    /\ dragging = [i \in Insts |-> FALSE]
    /\ edit = [i \in Insts |-> FALSE]
    /\ mat = [i \in Insts |-> Undefined]
    /\ invmat = [i \in Insts |-> Undefined]
    /\ storage = [n \in Names |-> Undefined]
    /\ mouseX = 0
    /\ mouseY = 0
    /\ mouseIsPressed = FALSE
    /\ failed = [i \in Insts |-> FALSE]
    /\ op = Call("none", 0, <<>>, FALSE, <<>>)

\* the image of the point p under the forward matrix of instance i
Forward(i, p) == MapPoint(mat[i], R(p[1]), R(p[2]))

NextSolve ==
    \/ ~made[1] /\ \E a \in {held[1], held[2]} : ProjectionMatrixCall(heap[a], heap[held[2]])
    \/ Construct(1, <<"ref", held[2]>>, <<"ref", held[1]>>, Null)
    \/ \E p \in TestPoints :
          /\ made[1]
          /\ IsFinite(Forward(1, p)[1])
          /\ Project(1, Forward(1, p)[1], Forward(1, p)[2])
    \/ Apply(1)

SpecSolve == InitSolve /\ [][NextSolve]_vars

---------------------------------------------------------------------------
(* Properties of the solver, under SpecSolve. *)

\* the points a, b and c lie on one line (two equal points do)
OnOneLine(a, b, c) ==
    (b[1] - a[1]) * (c[2] - a[2]) - (b[2] - a[2]) * (c[1] - a[1]) = 0

\* three of the four points of P are collinear: P is not a valid point set
Degenerate(P) ==
    \E i, j, k \in 1..4 : i < j /\ j < k /\ OnOneLine(P[i], P[j], P[k])

Pt(p) == <<R(p[1]), R(p[2])>>

\* the matrix c maps each point of src to the point of dst of the same index
Interpolates(c, src, dst) ==
    \A k \in 1..4 : MapPoint(c, R(src[k][1]), R(src[k][2])) = Pt(dst[k])

Identity == <<One, Zero, Zero, Zero, One, Zero, Zero, Zero, One>>

\* C1: whenever projectionMatrix(inPts, outPts) returns a matrix c, the
\* homogeneous-division formula of c maps each of the four source points
\* exactly to its destination point (so z is not 0 there).
C1_ExactInterpolation ==
    (op.kind = "projectionMatrix" /\ ~op.thrown) =>
        Interpolates(op.out, op.arg[1], op.arg[2])

\* C1 on valid point sets only: no three source points and no three
\* destination points collinear.
C1_ExactOnValidSets ==
    (op.kind = "projectionMatrix" /\ ~op.thrown
        /\ ~Degenerate(op.arg[1]) /\ ~Degenerate(op.arg[2])) =>
        Interpolates(op.out, op.arg[1], op.arg[2])

C1_ValidSolved ==
    /\ op.kind = "projectionMatrix" /\ ~op.thrown
    /\ ~Degenerate(op.arg[1]) /\ ~Degenerate(op.arg[2])
    /\ op.arg[1] # op.arg[2]

\* C2: whenever three of the four source points or three of the four
\* destination points are collinear (duplicates included), projectionMatrix
\* throws and returns no matrix.
C2_DegenerateRejected ==
    (op.kind = "projectionMatrix" /\ (Degenerate(op.arg[1]) \/ Degenerate(op.arg[2]))) =>
        op.thrown

\* C5: for point sets both solves of update() accept and a point p whose
\* forward image and its projection are finite, project() of the forward
\* image of p is p.
C5_RoundTrip ==
    (made[1] /\ op.kind = "project") =>
        \A p \in TestPoints :
            (op.arg = Forward(1, p) /\ IsFinite(op.out[1])) => op.out = Pt(p)

\* C5 on valid point sets only.
C5_RoundTripOnValidSets ==
    (made[1] /\ op.kind = "project" /\ ~Degenerate(InVals(1)) /\ ~Degenerate(OutVals(1))) =>
        \A p \in TestPoints :
            (op.arg = Forward(1, p) /\ IsFinite(op.out[1])) => op.out = Pt(p)

C5_ValidProjected ==
    /\ made[1] /\ op.kind = "project"
    /\ ~Degenerate(InVals(1)) /\ ~Degenerate(OutVals(1))
    /\ InVals(1) # OutVals(1)
    /\ op.arg = Forward(1, <<15, 15>>) /\ op.arg # Pt(<<15, 15>>)
    /\ IsFinite(op.out[1])

---------------------------------------------------------------------------
(* Properties of one instance, under Spec. *)

\* m is the matrix the solve s returned
Returns(s, m) == s.ok /\ m = s.m

\* mat[i] is the forward matrix of the current point sets of instance i
MatCurrent(i) == Returns(Solved(InVals(i), OutVals(i)), mat[i])

\* invmat[i] is the inverse matrix of the current point sets of instance i
InvmatCurrent(i) == Returns(Solved(OutVals(i), InVals(i)), invmat[i])

\* C3: update() is all-or-nothing: in no reachable state is mat the matrix
\* of the current point sets while invmat is not.
C3_AllOrNothing ==
    \A i \in Insts : (made[i] /\ MatCurrent(i)) => InvmatCurrent(i)

\* C3, the failing call: a call on an instance that throws has replaced
\* neither matrix of the instance.
C3_FailureReplacesNothing ==
    [][\A i \in Insts :
          (made[i] /\ op'.inst = i /\ op'.thrown /\ op'.kind \in {"update", "load", "mouseMoved", "apply"}) =>
              (mat'[i] = mat[i] /\ invmat'[i] = invmat[i])]_vars

\* C4: while every solve of an instance has succeeded, after each operation
\* mat is projectionMatrix(inPts, outPts) and invmat is
\* projectionMatrix(outPts, inPts) for the current inPts and outPts.
C4_Consistency ==
    \A i \in Insts : (made[i] /\ ~failed[i]) => (MatCurrent(i) /\ InvmatCurrent(i))

\* a drag step has moved a corner and every solve has succeeded
C4_AfterDragStep ==
    /\ made[1] /\ ~failed[1]
    /\ op.kind = "mouseMoved" /\ dragging[1] /\ mouseIsPressed
    /\ OutVals(1) \notin {Screen, Canvas}
    /\ mat[1] # Identity
    /\ MatCurrent(1) /\ InvmatCurrent(1)

\* the sixteen arguments of applyMatrix for the matrix m, as the
\* specification lists them
ExportLayout(m) ==
    <<m[1], m[4], Zero, m[7],
      m[2], m[5], Zero, m[8],
      Zero, Zero, One,  Zero,
      m[3], m[6], Zero, m[9]>>

\* C7: apply() passes to applyMatrix the sixteen values
\* [c00,c10,0,c20, c01,c11,0,c21, 0,0,1,0, c02,c12,0,c22] of the forward
\* matrix it is called with, and the sixteenth value is 1.
C7_ExportLayout ==
    [][\A i \in Insts :
          Apply(i) => (op'.out = ExportLayout(mat[i]) /\ op'.out[16] = One)]_vars

\* apply() has exported a matrix with perspective terms that is not its own
\* transpose
C7_PerspectiveExported ==
    /\ op.kind = "apply" /\ made[1]
    /\ op.out = ExportLayout(mat[1])
    /\ mat[1][7] # Zero
    /\ mat[1][3] # mat[1][7]
    /\ mat[1] # invmat[1]

\* a call of mouseMoved() on instance i: by the sketch, or by apply() in
\* edit mode
DragCall(i) == MouseMoved(i) \/ (edit[i] /\ Apply(i))

\* the mouse position relative to the centre of the canvas
RelMouse == <<mouseX - HalfWidth, mouseY - HalfHeight>>

\* a drag step changes one corner of outPts and the matrices only
DragStepFrame(i) ==
    (dragging[i] /\ mouseIsPressed /\ DragCall(i)) =>
        /\ OutVals(i)' = [OutVals(i) EXCEPT ![hit[i] + 1] = RelMouse]
        /\ InVals(i)' = InVals(i)
        /\ UNCHANGED <<inPts, outPts, hit, dragging, edit, name, made, storage>>

\* the end of a drag changes dragging only
ReleaseFrame(i) ==
    (dragging[i] /\ ~mouseIsPressed /\ DragCall(i)) =>
        /\ dragging' = [dragging EXCEPT ![i] = FALSE]
        /\ UNCHANGED <<heap, inPts, outPts, hit, edit, name, made, mat, invmat, storage>>

Near(i) ==
    \E k \in 1..4 :
        (OutVals(i)[k][1] - RelMouse[1]) * (OutVals(i)[k][1] - RelMouse[1])
      + (OutVals(i)[k][2] - RelMouse[2]) * (OutVals(i)[k][2] - RelMouse[2]) < 30 * 30

\* C10: dragging implies hit in 0..3; dragging becomes true only in a
\* mouseMoved call with the mouse pressed and a corner of outPts strictly
\* within distance 30 of the mouse; hit does not change while dragging.
C10_DragValidity ==
    /\ [](\A i \in Insts : dragging[i] => hit[i] \in 0..3)
    /\ [][\A i \in Insts :
             /\ (~dragging[i] /\ dragging'[i]) => (DragCall(i) /\ mouseIsPressed /\ Near(i))
             /\ dragging[i] => hit'[i] = hit[i]]_vars

\* a drag goes on, and a corner lies at distance exactly 30 of the mouse
C10_DraggingAtTheRadius ==
    /\ made[1] /\ dragging[1] /\ hit[1] \in 0..3 /\ mouseIsPressed
    /\ op.kind \in {"mouseMoved", "apply"}
    /\ \E k \in 1..4 :
          (OutVals(1)[k][1] - RelMouse[1]) * (OutVals(1)[k][1] - RelMouse[1])
        + (OutVals(1)[k][2] - RelMouse[2]) * (OutVals(1)[k][2] - RelMouse[2]) = 30 * 30

---------------------------------------------------------------------------
(* Properties of two instances, under SpecTwo. *)

\* what the claim lists of instance i
View(i) == <<InVals(i), OutVals(i), mat[i], invmat[i], hit[i], dragging[i]>>

\* what load() of instance i would read
Loadable(i) == IF name[i] = Null THEN Undefined ELSE storage[name[i]]

\* instances i and j have no array and no storage key in common
Separate(i, j) ==
    /\ name[i] = Null \/ name[j] = Null \/ name[i] # name[j]
    /\ {inPts[i], outPts[i]} \cap {inPts[j], outPts[j]} = {}

=============================================================================
